---- MODULE Spec2Model ----
\* Model of the BuilderPrime poller (services/builderprime-poller.ts, latest
\* revision) together with the GroupMe sink it calls (services/groupme.ts).
\*
\* JavaScript runs one callback at a time: every action below is one macrotask,
\* i.e. the code from a timer tick / exported call / I/O completion up to the
\* next await that really waits for I/O.  An await on a promise that is already
\* settled (missing API key, unconfigured bot, fresh cache) does not give other
\* timers or I/O completions a chance to run, so the action runs through it.
EXTENDS Integers, Sequences, FiniteSets, TLC

\* ---------------------------------------------------------------- bounds
\* Total number of pollForNewMeetings invocations in one run of the process.
MaxCycles == 2
\* Number of times the wall clock moves forward in one run of the process.
MaxAdvances == 1
\* Number of webhook requests received in one run of the process.
MaxWebhooks == 2

\* ------------------------------------------------------ program constants
POLL_INTERVAL_MS == 2 * 60 * 1000
CACHE_DURATION_MS == 5 * 60 * 1000
DAY_MS == 24 * 60 * 60 * 1000
daysToQuery == 120
chunkSize == 30

\* JavaScript null (a field the CRM left empty).
Null == "<null>"

\* ------------------------------------------------------------ environment
\* Date.now() is milliseconds since the epoch, in UTC.  The process is started
\* at 09:00 on the second day of the epoch so that every instant the cycle
\* handles as a plain number fits TLC's integers.
StartClock == DAY_MS + 9 * 60 * 60 * 1000

\* An instant too far ahead for one number: d days plus ms milliseconds.
At(d, ms) == [d |-> d, ms |-> ms]
Norm(t) == [d |-> t.d + (t.ms \div DAY_MS), ms |-> t.ms % DAY_MS]
Leq(a, b) ==
  LET x == Norm(a)
      y == Norm(b)
  IN  x.d < y.d \/ (x.d = y.d /\ x.ms <= y.ms)

\* The meetings the CRM holds, in the order its API lists them.
\*   1: set today, scheduled for tomorrow;
\*   2: set today, scheduled exactly 30 days after StartClock;
\*   3: set yesterday at 23:59, scheduled for the day after tomorrow.
SourceMeetings ==
  << [id |-> 1, title |-> "Jane Doe - Estimate", startDateTime |-> At(1, StartClock),
      createdDate |-> StartClock - 60 * 60 * 1000, clientId |-> 7, opportunityId |-> 8,
      employeeFirstName |-> "Eve", employeeLastName |-> "Fox"],
     [id |-> 2, title |-> "Ann Roe - Estimate", startDateTime |-> At(chunkSize, StartClock),
      createdDate |-> DAY_MS, clientId |-> 8, opportunityId |-> 7,
      employeeFirstName |-> "Eve", employeeLastName |-> "Fox"],
     [id |-> 3, title |-> "Bob Ray - Estimate", startDateTime |-> At(2, StartClock),
      createdDate |-> DAY_MS - 60 * 1000, clientId |-> 7, opportunityId |-> 9,
      employeeFirstName |-> "Gus", employeeLastName |-> "Hay"],
     [id |-> 4, title |-> "Cy Orr - Estimate",
      startDateTime |-> At(daysToQuery + 1, StartClock),
      createdDate |-> StartClock - 2 * 60 * 60 * 1000, clientId |-> 8,
      opportunityId |-> 7, employeeFirstName |-> "Gus", employeeLastName |-> "Hay"] >>

MeetingIds == {SourceMeetings[k].id : k \in DOMAIN SourceMeetings}

\* The roster GET /api/clients answers with.
SourceRoster ==
  << [id |-> 7, leadSetterFirstName |-> "Sam", leadSetterLastName |-> "Lee"],
     [id |-> 8, leadSetterFirstName |-> Null, leadSetterLastName |-> "Poe"] >>

Cycles == 1 .. MaxCycles

VARIABLES
  env,                   \* process.env: which settings are present
  clock,                 \* Date.now()
  isPolling,             \* the module's isPolling flag
  timers,                \* the live setInterval timers: when each is due next
  notifiedAppointments,  \* the dedup set
  opportunitiesCache,    \* party id -> party record
  lastOpportunitiesFetch,
  cycles,                \* cycle number -> the locals of that invocation
  sinkLog,               \* cycle number -> its sendGroupMeMessage calls, in order
  filterLog,             \* cycle number -> what its filter saw and kept
  overlapped,            \* pairs <<a, b>>: cycle b began while cycle a was in flight
  stoppedAt,             \* cycle number -> its number of sink calls when stopPolling()
                         \*   was first called during it (-1: never)
  startCalled,           \* the last step was a call of startPolling()
  webhooks,              \* the calls of handleBuilderPrimeWebhook, in order
  formatted,             \* a meeting given to formatMeetingMessage, and the
                         \*   customer name it made of it
  refreshFailures        \* the `now` of each fetchLeadSetter call whose roster
                         \*   fetch failed

vars == << env, clock, isPolling, timers, notifiedAppointments,
           opportunitiesCache, lastOpportunitiesFetch, cycles, sinkLog,
           filterLog, overlapped, stoppedAt, startCalled, webhooks, formatted,
           refreshFailures >>

\* ------------------------------------------------------------ cycle locals
NoCycle ==
  [pc |-> "none", now |-> 0, todayMidnightMs |-> 0, offset |-> 0,
   allMeetings |-> << >>, newMeetings |-> << >>, i |-> 0, fnow |-> 0,
   message |-> << >>]

\* What a cycle's filter step leaves behind for the record: the ids of the
\* aggregated list that passed the creation-date test, and the ids kept.
NotFiltered == [ran |-> FALSE, createdToday |-> {}, newMeetings |-> << >>]

Ids(meetings) == [k \in DOMAIN meetings |-> meetings[k].id]

InFlight(c) == cycles[c].pc \in {"fetch", "roster", "send"}
Started(c) == cycles[c].pc # "none"
NumStarted == Cardinality({c \in Cycles : Started(c)})

\* ------------------------------------------------------- pure helpers
\* JavaScript truthiness of a string-or-null field.
Truthy(s) == s # Null /\ s # ""

\* The places at which pattern occurs in s.
Occurrences(s, pattern) ==
  {k \in 1 .. Len(s) - Len(pattern) + 1 :
     SubSeq(s, k, k + Len(pattern) - 1) = pattern}

RECURSIVE ToLowerCase(_)
\* The /i flag of the placeholder test: letters compare without case.
ToLowerCase(s) ==
  IF s = ""
  THEN ""
  ELSE LET ch == SubSeq(s, 1, 1)
           at == Occurrences("ABCDEFGHIJKLMNOPQRSTUVWXYZ", ch)
           lower == IF at = {}
                    THEN ch
                    ELSE LET k == CHOOSE j \in at : TRUE
                         IN  SubSeq("abcdefghijklmnopqrstuvwxyz", k, k)
       IN  lower \o ToLowerCase(SubSeq(s, 2, Len(s)))

\* The values GROUPME_BOT_ID is tried with: unset, the placeholder of the
\* sample configuration as it is and in capitals, and a bot id.
BotIds ==
  {Null, "your_groupme_bot_id_here", "YOUR_GROUPME_BOT_ID_HERE", "0a1b2c3d"}

\* A faulty isPlaceholder, for comparison: only an unset bot id counts.
isPlaceholderUnset(botId) == ~Truthy(botId)

\* isPlaceholder of sendGroupMeMessage.
isPlaceholder(botId) ==
  \/ ~Truthy(botId)
  \/ Occurrences(ToLowerCase(botId), "your_groupme_bot_id_here") # {}

\* The bot ids with which sendGroupMeMessage skips the post.
PlaceholderIds == {botId \in BotIds : isPlaceholder(botId)}

\* opportunitiesCache.clear(); opportunities.forEach(opp => cache.set(opp.id, opp))
\* A later entry with the same id overwrites an earlier one.
CacheOf(opportunities) ==
  [id \in {opportunities[k].id : k \in DOMAIN opportunities} |->
     LET last == CHOOSE k \in DOMAIN opportunities :
                   /\ opportunities[k].id = id
                   /\ \A j \in DOMAIN opportunities : opportunities[j].id = id => j <= k
     IN  opportunities[last]]

\* The tail of fetchLeadSetter: << >> stands for its null result.
LeadSetterOf(cache, clientId) ==
  IF /\ clientId \in DOMAIN cache
     /\ Truthy(cache[clientId].leadSetterFirstName)
     /\ Truthy(cache[clientId].leadSetterLastName)
  THEN << cache[clientId].leadSetterFirstName, cache[clientId].leadSetterLastName >>
  ELSE << >>

\* A faulty CsrName, for comparison: no name is put in when none is resolved.
CsrNameBlank(leadSetter) == leadSetter

\* csrName of formatMeetingMessage, as the words joined by single spaces.
CsrName(leadSetter) ==
  IF leadSetter # << >> THEN leadSetter ELSE << "Unknown", "CSR" >>

\* String.prototype.replace with a string pattern: the first occurrence only.
Replace(s, pattern, replacement) ==
  LET at == {k \in 1 .. Len(s) - Len(pattern) + 1 :
               SubSeq(s, k, k + Len(pattern) - 1) = pattern}
  IN  IF at = {}
      THEN s
      ELSE LET k == CHOOSE j \in at : \A h \in at : j <= h
           IN  SubSeq(s, 1, k - 1) \o replacement
                 \o SubSeq(s, k + Len(pattern), Len(s))

\* A faulty CustomerName, for comparison: the client fields are joined
\* although they are empty.
CustomerNameJoined(meeting) ==
  (IF Truthy(meeting.clientFirstName) THEN meeting.clientFirstName ELSE "")
    \o " "
    \o (IF Truthy(meeting.clientLastName) THEN meeting.clientLastName ELSE "")

\* customerName of formatMeetingMessage.
CustomerName(meeting) ==
  IF Truthy(meeting.clientFirstName) /\ Truthy(meeting.clientLastName)
  THEN meeting.clientFirstName \o " " \o meeting.clientLastName
  ELSE Replace(Replace(meeting.title, " - Estimate", ""), " - ", " ")

\* What the meetings endpoint answers for a window (at most `limit` records).
\* The window includes both of its end instants.
SourceWindow(from, to) ==
  LET hits == SelectSeq(SourceMeetings,
                LAMBDA m : Leq(from, m.startDateTime) /\ Leq(m.startDateTime, to))
  IN  SubSeq(hits, 1, IF Len(hits) < 100 THEN Len(hits) ELSE 100)

\* A faulty NewMeetings, for comparison: a meeting created at midnight sharp is
\* taken for yesterday's.
NewMeetingsStrict(allMeetings, todayMidnightMs, notified) ==
  SelectSeq(allMeetings, LAMBDA m :
    m.createdDate > todayMidnightMs /\ m.id \notin notified)

\* A faulty NewMeetings, for comparison: the filter forgets the dedup set.
NewMeetingsNoDedup(allMeetings, todayMidnightMs, notified) ==
  SelectSeq(allMeetings, LAMBDA m : m.createdDate >= todayMidnightMs)

\* allMeetings.filter(m => m.createdDate >= todayMidnightMs && !notified.has(m.id))
NewMeetings(allMeetings, todayMidnightMs, notified) ==
  SelectSeq(allMeetings,
    LAMBDA m : m.createdDate >= todayMidnightMs /\ m.id \notin notified)

\* new Date(); setHours(0, 0, 0, 0); getTime()  (process time zone: UTC)
TodayMidnight(now) == now - (now % DAY_MS)

\* ------------------------------------------- one invocation, step by step
\* A machine state: the locals of one invocation and the module state it
\* touches.  The operators below run the code from one point up to the next
\* await that waits for I/O and return the machine state reached there.
State(c) ==
  [cyc |-> cycles[c], notified |-> notifiedAppointments,
   cache |-> opportunitiesCache, last |-> lastOpportunitiesFetch,
   log |-> sinkLog[c], flt |-> filterLog[c]]

Apply(c, st) ==
  /\ cycles' = [cycles EXCEPT ![c] = st.cyc]
  /\ notifiedAppointments' = st.notified
  /\ opportunitiesCache' = st.cache
  /\ lastOpportunitiesFetch' = st.last
  /\ sinkLog' = [sinkLog EXCEPT ![c] = st.log]
  /\ filterLog' = [filterLog EXCEPT ![c] = st.flt]

\* A faulty Meeting, for comparison: the loop walks newMeetings from its end.
MeetingReversed(st) == st.cyc.newMeetings[Len(st.cyc.newMeetings) + 1 - st.cyc.i]

\* `meeting` of the delivery loop.
Meeting(st) == st.cyc.newMeetings[st.cyc.i]

LogEntry(st, result) ==
  [id |-> Meeting(st).id, result |-> result, message |-> st.cyc.message]

\* pollForNewMeetings returns (normally or through its catch): locals die.
Finished(st) == [st EXCEPT !.cyc = [NoCycle EXCEPT !.pc = "done"]]

RECURSIVE RunLoop(_)

\* Lines 215-216 after sendGroupMeMessage returned (posted or skipped):
\* the id is marked as notified and the for loop goes on.
SendReturned(st, result) ==
  RunLoop([st EXCEPT !.log = Append(@, LogEntry(st, result)),
                     !.notified = @ \cup {Meeting(st).id},
                     !.cyc.i = @ + 1,
                     !.cyc.fnow = 0,
                     !.cyc.message = << >>])

\* A faulty SendThrew, for comparison: nothing catches the post's error and the
\* call of pollForNewMeetings ends by raising it.
SendThrewUncaught(st) ==
  [st EXCEPT !.log = Append(@, LogEntry(st, "threw")),
             !.cyc = [NoCycle EXCEPT !.pc = "raised"]]

\* A faulty SendThrew, for comparison: the id is marked as notified although
\* the post failed.
SendThrewNotified(st) ==
  Finished([st EXCEPT !.log = Append(@, LogEntry(st, "threw")),
                      !.notified = @ \cup {Meeting(st).id}])

\* sendGroupMeMessage rethrows the post's error; nothing inside the for loop
\* catches it, so it lands in the catch around the whole cycle.
SendThrew(st) ==
  Finished([st EXCEPT !.log = Append(@, LogEntry(st, "threw"))])

\* sendGroupMeMessage(message): skip without I/O when the bot id is missing,
\* else wait for the post.
SendCall(st) ==
  IF env.botId \in PlaceholderIds
  THEN SendReturned(st, "skipped")
  ELSE [st EXCEPT !.cyc.pc = "send"]

\* A faulty Format, for comparison: the roster is looked up by the meeting's
\* opportunityId.
FormatByOpportunityId(st) ==
  LET leadSetter == LeadSetterOf(st.cache, Meeting(st).opportunityId)
  IN  SendCall([st EXCEPT !.cyc.message = CsrName(leadSetter)])

\* fetchLeadSetter from the cache lookup on, then the rest of
\* formatMeetingMessage, then the call of the sink.
Format(st) ==
  LET leadSetter == LeadSetterOf(st.cache, Meeting(st).clientId)
  IN  SendCall([st EXCEPT !.cyc.message = CsrName(leadSetter)])

\* A faulty Refreshed, for comparison: the roster fetched is merged into the
\* cache, and parties it no longer lists stay.
RefreshedMerging(st, opportunities) ==
  LET new == CacheOf(opportunities)
  IN  Format([st EXCEPT
        !.cache = [id \in DOMAIN st.cache \cup DOMAIN new |->
                     IF id \in DOMAIN new THEN new[id] ELSE st.cache[id]],
        !.last = st.cyc.fnow])

\* fetchOpportunities resolved with `opportunities`: replace the cache.
Refreshed(st, opportunities) ==
  Format([st EXCEPT !.cache = CacheOf(opportunities),
                    !.last = st.cyc.fnow])

\* A faulty LeadSetterCall, for comparison: the cache is taken for stale from
\* 1 ms before it is 5 minutes old.
LeadSetterCallEarly(st) ==
  LET called == [st EXCEPT !.cyc.fnow = clock]
  IN  IF clock - st.last >= CACHE_DURATION_MS - 1
      THEN IF env.apiKey
           THEN [called EXCEPT !.cyc.pc = "roster"]
           ELSE Refreshed(called, << >>)
      ELSE Format(called)

\* fetchLeadSetter up to the cache refresh.  fnow is its local `now`; it is
\* kept until the meeting's send has returned.
LeadSetterCall(st) ==
  LET called == [st EXCEPT !.cyc.fnow = clock]
  IN  IF clock - st.last > CACHE_DURATION_MS
      THEN IF env.apiKey
           THEN [called EXCEPT !.cyc.pc = "roster"]
           ELSE Refreshed(called, << >>)
      ELSE Format(called)

\* A faulty RunLoop, for comparison: the loop gives up once stopPolling() has
\* cleared the flag.
RunLoopStoppable(st) ==
  IF ~isPolling \/ st.cyc.i > Len(st.cyc.newMeetings)
  THEN Finished(st)
  ELSE LeadSetterCall(st)

\* The head of `for (const meeting of newMeetings)`.
RunLoop(st) ==
  IF st.cyc.i > Len(st.cyc.newMeetings)
  THEN Finished(st)
  ELSE LeadSetterCall(st)

RECURSIVE FetchCall(_)

\* A faulty FetchReturned, for comparison: a chunk that came back empty ends
\* the cycle.
FetchReturnedAbort(st, meetings) ==
  LET all == st.cyc.allMeetings \o meetings
      next == st.cyc.offset + chunkSize
  IN  IF meetings = << >>
      THEN Finished(st)
      ELSE IF next < daysToQuery
      THEN FetchCall([st EXCEPT !.cyc.allMeetings = all, !.cyc.offset = next])
      ELSE LET new == NewMeetings(all, st.cyc.todayMidnightMs, st.notified)
           IN  RunLoop([st EXCEPT
                 !.cyc = [NoCycle EXCEPT !.newMeetings = new, !.i = 1],
                 !.flt = [ran |-> TRUE,
                          createdToday |->
                            {all[k].id : k \in {j \in DOMAIN all :
                               all[j].createdDate >= st.cyc.todayMidnightMs}},
                          newMeetings |-> Ids(new)]])

\* A faulty FetchReturned, for comparison: each chunk's answer takes the place
\* of what the chunks before it brought.
FetchReturnedReplacing(st, meetings) ==
  LET all == meetings
      next == st.cyc.offset + chunkSize
  IN  IF next < daysToQuery
      THEN FetchCall([st EXCEPT !.cyc.allMeetings = all, !.cyc.offset = next])
      ELSE LET new == NewMeetings(all, st.cyc.todayMidnightMs, st.notified)
           IN  RunLoop([st EXCEPT
                 !.cyc = [NoCycle EXCEPT !.newMeetings = new, !.i = 1],
                 !.flt = [ran |-> TRUE,
                          createdToday |->
                            {all[k].id : k \in {j \in DOMAIN all :
                               all[j].createdDate >= st.cyc.todayMidnightMs}},
                          newMeetings |-> Ids(new)]])

\* fetchMeetings resolved with `meetings`: aggregate, then the next chunk or,
\* after the last one, the filter.  now, todayMidnightMs, offset and allMeetings
\* are never read after the filter and are dropped there.
FetchReturned(st, meetings) ==
  LET all == st.cyc.allMeetings \o meetings
      next == st.cyc.offset + chunkSize
  IN  IF next < daysToQuery
      THEN FetchCall([st EXCEPT !.cyc.allMeetings = all, !.cyc.offset = next])
      ELSE LET new == NewMeetings(all, st.cyc.todayMidnightMs, st.notified)
           IN  RunLoop([st EXCEPT
                 !.cyc = [NoCycle EXCEPT !.newMeetings = new, !.i = 1],
                 !.flt = [ran |-> TRUE,
                          createdToday |->
                            {all[k].id : k \in {j \in DOMAIN all :
                               all[j].createdDate >= st.cyc.todayMidnightMs}},
                          newMeetings |-> Ids(new)]])

\* fetchMeetings(startDateFrom, startDateTo): [] at once without an API key.
FetchCall(st) ==
  IF ~env.apiKey
  THEN FetchReturned(st, << >>)
  ELSE [st EXCEPT !.cyc.pc = "fetch"]

\* The window of the request a cycle is waiting for.
StartDateFrom(cyc) == At(cyc.offset, cyc.now)
\* A faulty StartDateTo, for comparison: the window ends a day early.
StartDateToShort(cyc) == At(cyc.offset + chunkSize - 1, cyc.now)
StartDateTo(cyc) == At(cyc.offset + chunkSize, cyc.now)

\* pollForNewMeetings() is called: cycle number c begins.
BeginCycle(c) ==
  LET fresh == [NoCycle EXCEPT !.now = clock,
                               !.todayMidnightMs = TodayMidnight(clock)]
  IN  /\ Apply(c, FetchCall([State(c) EXCEPT !.cyc = fresh]))
      /\ overlapped' = overlapped \cup {<< a, c >> : a \in {x \in Cycles : InFlight(x)}}

NextCycle == NumStarted + 1

\* No meeting has been given to formatMeetingMessage.
NotFormatted ==
  [meeting |-> [clientFirstName |-> Null, clientLastName |-> Null, title |-> ""],
   customerName |-> "", done |-> FALSE]

\* The poller module and process.env when the process starts.
InitPoller ==
  /\ env \in [apiKey : BOOLEAN, botId : BotIds]
  /\ clock = StartClock
  /\ isPolling = FALSE
  /\ timers = << >>
  /\ notifiedAppointments = {}
  /\ opportunitiesCache = CacheOf(<< >>)
  /\ lastOpportunitiesFetch = 0
  /\ cycles = [c \in Cycles |-> NoCycle]
  /\ sinkLog = [c \in Cycles |-> << >>]
  /\ filterLog = [c \in Cycles |-> NotFiltered]
  /\ overlapped = {}
  /\ stoppedAt = [c \in Cycles |-> -1]
  /\ startCalled = FALSE
  /\ refreshFailures = {}

Init ==
  /\ InitPoller
  /\ webhooks = << >>
  /\ formatted = NotFormatted

\* ---------------------------------------------------------------- actions
\* A faulty StartPolling, for comparison: the isPolling guard is missing.
StartPollingUnguarded ==
  /\ startCalled' = TRUE
  /\ UNCHANGED << env, refreshFailures, webhooks, formatted, clock, stoppedAt >>
  /\ NumStarted < MaxCycles
  /\ isPolling' = TRUE
  /\ BeginCycle(NextCycle)
  /\ timers' = Append(timers, clock + POLL_INTERVAL_MS)

\* A faulty StartPolling, for comparison: the first cycle is left to the
\* timer's first tick.
StartPollingTimerOnly ==
  /\ startCalled' = TRUE
  /\ UNCHANGED << env, refreshFailures, webhooks, formatted, clock, stoppedAt >>
  /\ IF isPolling
     THEN UNCHANGED << isPolling, timers, notifiedAppointments, opportunitiesCache,
                       lastOpportunitiesFetch, cycles, sinkLog, filterLog,
                       overlapped >>
     ELSE /\ NumStarted < MaxCycles
          /\ isPolling' = TRUE
          /\ timers' = Append(timers, clock + POLL_INTERVAL_MS)
          /\ UNCHANGED << notifiedAppointments, opportunitiesCache,
                          lastOpportunitiesFetch, cycles, sinkLog, filterLog,
                          overlapped >>

\* startPolling()
StartPolling ==
  /\ startCalled' = TRUE
  /\ UNCHANGED << env, refreshFailures, webhooks, formatted, clock, stoppedAt >>
  /\ IF isPolling
     THEN UNCHANGED << isPolling, timers, notifiedAppointments, opportunitiesCache,
                       lastOpportunitiesFetch, cycles, sinkLog, filterLog,
                       overlapped >>
     ELSE /\ NumStarted < MaxCycles
          /\ isPolling' = TRUE
          /\ BeginCycle(NextCycle)
          /\ timers' = Append(timers, clock + POLL_INTERVAL_MS)

\* A faulty StopPolling, for comparison: stopping forgets what was notified.
StopPollingForgetting ==
  /\ startCalled' = FALSE
  /\ isPolling' = FALSE
  /\ notifiedAppointments' = {}
  /\ stoppedAt' = [c \in Cycles |->
                     IF InFlight(c) /\ stoppedAt[c] = -1
                     THEN Len(sinkLog[c])
                     ELSE stoppedAt[c]]
  /\ UNCHANGED << env, refreshFailures, webhooks, formatted, clock, timers,
                  opportunitiesCache, lastOpportunitiesFetch, cycles, sinkLog,
                  filterLog, overlapped >>

\* stopPolling()
StopPolling ==
  /\ startCalled' = FALSE
  /\ isPolling' = FALSE
  /\ stoppedAt' = [c \in Cycles |->
                     IF InFlight(c) /\ stoppedAt[c] = -1
                     THEN Len(sinkLog[c])
                     ELSE stoppedAt[c]]
  /\ UNCHANGED << env, refreshFailures, webhooks, formatted, clock, timers, notifiedAppointments,
                  opportunitiesCache, lastOpportunitiesFetch, cycles, sinkLog,
                  filterLog, overlapped >>

\* Interval timer t, set by startPolling, is due and fires:
\* pollForNewMeetings().  It is due again one interval later.
Tick(t) ==
  /\ clock >= timers[t]
  /\ NumStarted < MaxCycles
  /\ BeginCycle(NextCycle)
  /\ timers' = [timers EXCEPT ![t] = clock + POLL_INTERVAL_MS]
  /\ startCalled' = FALSE
  /\ UNCHANGED << env, refreshFailures, webhooks, formatted, clock, isPolling, stoppedAt >>

\* The axios.get of fetchMeetings settles: with the window's meetings, or
\* (transport error, success flag false) with nothing.
FetchDone(c, ok) ==
  /\ cycles[c].pc = "fetch"
  /\ LET meetings == IF ok
                     THEN SourceWindow(StartDateFrom(cycles[c]), StartDateTo(cycles[c]))
                     ELSE << >>
     IN  Apply(c, FetchReturned(State(c), meetings))
  /\ startCalled' = FALSE
  /\ UNCHANGED << env, refreshFailures, webhooks, formatted, clock, isPolling, timers, overlapped, stoppedAt >>

\* The axios.get of fetchOpportunities settles: with the roster, or (error)
\* with nothing.
RosterDone(c, ok) ==
  /\ cycles[c].pc = "roster"
  /\ Apply(c, Refreshed(State(c), IF ok THEN SourceRoster ELSE << >>))
  /\ refreshFailures' = IF ok THEN refreshFailures
                               ELSE refreshFailures \cup {cycles[c].fnow}
  /\ startCalled' = FALSE
  /\ UNCHANGED << env, webhooks, formatted, clock, isPolling, timers, overlapped, stoppedAt >>

\* The axios.post of sendGroupMeMessage settles: posted, or rejected.
SendDone(c, ok) ==
  /\ cycles[c].pc = "send"
  /\ Apply(c, IF ok THEN SendReturned(State(c), "posted") ELSE SendThrew(State(c)))
  /\ startCalled' = FALSE
  /\ UNCHANGED << env, refreshFailures, webhooks, formatted, clock, isPolling, timers, overlapped, stoppedAt >>

\* Time passes: just long enough for a cache filled now to be stale.
ClockStep == CACHE_DURATION_MS + 1

Advance ==
  /\ clock + ClockStep <= StartClock + MaxAdvances * ClockStep
  /\ clock' = clock + ClockStep
  /\ startCalled' = FALSE
  /\ UNCHANGED << env, refreshFailures, webhooks, formatted, isPolling, timers, notifiedAppointments, opportunitiesCache,
                  lastOpportunitiesFetch, cycles, sinkLog, filterLog, overlapped,
                  stoppedAt >>

Next ==
  \/ StartPolling
  \/ StopPolling
  \/ \E t \in DOMAIN timers : Tick(t)
  \/ Advance
  \/ \E c \in Cycles, ok \in BOOLEAN : FetchDone(c, ok)
  \/ \E c \in Cycles, ok \in BOOLEAN : RosterDone(c, ok)
  \/ \E c \in Cycles, ok \in BOOLEAN : SendDone(c, ok)

Spec == Init /\ [][Next]_vars

\* The instants 1 ms before, on and 1 ms after the end of the life of a cache
\* filled at the start.
Instants ==
  {StartClock + CACHE_DURATION_MS + d : d \in {-1, 0, 1}}

\* Time passes until the clock reads t.
Elapse(t) ==
  /\ t > clock
  /\ clock' = t
  /\ startCalled' = FALSE
  /\ UNCHANGED << env, refreshFailures, webhooks, formatted, isPolling, timers, notifiedAppointments, opportunitiesCache,
                  lastOpportunitiesFetch, cycles, sinkLog, filterLog, overlapped,
                  stoppedAt >>

\* The poller with a clock fine enough to land 1 ms before, on and 1 ms after
\* the end of the cache's life.
NextTTL ==
  \/ StartPolling
  \/ \E t \in DOMAIN timers : Tick(t)
  \/ \E t \in Instants : Elapse(t)
  \/ \E c \in Cycles, ok \in BOOLEAN : FetchDone(c, ok)
  \/ \E c \in Cycles, ok \in BOOLEAN : RosterDone(c, ok)
  \/ \E c \in Cycles, ok \in BOOLEAN : SendDone(c, ok)

SpecTTL == Init /\ [][NextTTL]_vars

\* The meetings formatMeetingMessage is tried on: client names present, null
\* or empty, and titles with the suffix, without it, with a second separator,
\* with nothing but the suffix, and with the suffix's words in the middle.
FormatInputs ==
  [clientFirstName : {Null, "", "Ann"},
   clientLastName : {Null, "", "Roe"},
   title : {"Jane Doe - Estimate", "Jane - Doe - Estimate", "Jane Doe",
            " - Estimate", "", "Roof - Estimate - Jane Doe"}]

InitFormat ==
  /\ InitPoller
  /\ webhooks = << >>
  /\ formatted \in {[NotFormatted EXCEPT !.meeting = m] : m \in FormatInputs}

\* formatMeetingMessage(meeting), as far as the customer name.
FormatMeetingMessage ==
  /\ ~formatted.done
  /\ formatted' = [formatted EXCEPT !.customerName = CustomerName(formatted.meeting),
                                    !.done = TRUE]
  /\ UNCHANGED << env, refreshFailures, webhooks, clock, isPolling, timers, notifiedAppointments,
                  opportunitiesCache, lastOpportunitiesFetch, cycles, sinkLog,
                  filterLog, overlapped, stoppedAt, startCalled >>

NextFormat == FormatMeetingMessage

SpecFormat == InitFormat /\ [][NextFormat]_vars

\* ----------------------------------------------------- a roster that changes
\* The roster once party 7 has left it and party 8 has a lead setter.
LaterRoster ==
  << [id |-> 8, leadSetterFirstName |-> "Kim", leadSetterLastName |-> "Poe"] >>

Rosters == {SourceRoster, LaterRoster}

\* The axios.get of fetchOpportunities settles with this roster.
RosterAnswered(c, opportunities) ==
  /\ cycles[c].pc = "roster"
  /\ Apply(c, Refreshed(State(c), opportunities))
  /\ startCalled' = FALSE
  /\ UNCHANGED << env, refreshFailures, webhooks, formatted, clock, isPolling, timers, overlapped,
                  stoppedAt >>

\* The poller, never stopped, with a source and a sink that always answer and
\* a roster source whose answer varies.
NextRoster ==
  \/ StartPolling
  \/ \E t \in DOMAIN timers : Tick(t)
  \/ Advance
  \/ \E c \in Cycles : FetchDone(c, TRUE)
  \/ \E c \in Cycles, opportunities \in Rosters : RosterAnswered(c, opportunities)
  \/ \E c \in Cycles : SendDone(c, TRUE)

SpecRoster == Init /\ [][NextRoster]_vars

\* ------------------------------------------------------- webhook receiver
\* The event tags handleBuilderPrimeWebhook has a case for.
HandledEvents ==
  {"lead.created", "appointment.scheduled", "project.updated", "estimate.sent"}

\* The request bodies tried: the handled tags and one other, each with a data
\* object or without one.
Payloads == [event : HandledEvents \cup {"invoice.paid"}, data : {"object", Null}]

\* handleBuilderPrimeWebhook(payload) up to its first real wait: where it ends
\* ("dropped": no case for the tag; "raised": the handler read a property of
\* the missing data and the TypeError was rethrown; "skipped": the sink
\* skipped the post) or waits ("send": for the post).
WebhookCall(payload) ==
  IF payload.event \notin HandledEvents
  THEN "dropped"
  ELSE IF payload.data = Null
  THEN "raised"
  ELSE IF env.botId \in PlaceholderIds
  THEN "skipped"
  ELSE "send"

\* POST /webhook/builderprime arrives.
HandleWebhook(payload) ==
  /\ Len(webhooks) < MaxWebhooks
  /\ webhooks' = Append(webhooks, [event |-> payload.event, data |-> payload.data,
                                    pc |-> WebhookCall(payload)])
  /\ startCalled' = FALSE
  /\ UNCHANGED << env, refreshFailures, formatted, clock, isPolling, timers, notifiedAppointments,
                  opportunitiesCache, lastOpportunitiesFetch, cycles, sinkLog,
                  filterLog, overlapped, stoppedAt >>

\* The axios.post of a webhook's sendGroupMeMessage settles: posted, or
\* rejected (rethrown up to the route, which answers 500).
WebhookSendDone(w, ok) ==
  /\ webhooks[w].pc = "send"
  /\ webhooks' = [webhooks EXCEPT ![w].pc = IF ok THEN "posted" ELSE "threw"]
  /\ startCalled' = FALSE
  /\ UNCHANGED << env, refreshFailures, formatted, clock, isPolling, timers, notifiedAppointments,
                  opportunitiesCache, lastOpportunitiesFetch, cycles, sinkLog,
                  filterLog, overlapped, stoppedAt >>

\* The webhook receiver next to a poller that runs one cycle whose requests
\* all succeed.
NextWebhook ==
  \/ StartPolling
  \/ \E c \in Cycles : FetchDone(c, TRUE)
  \/ \E c \in Cycles : RosterDone(c, TRUE)
  \/ \E c \in Cycles : SendDone(c, TRUE)
  \/ \E payload \in Payloads : HandleWebhook(payload)
  \/ \E w \in DOMAIN webhooks, ok \in BOOLEAN : WebhookSendDone(w, ok)

SpecWebhook == Init /\ [][NextWebhook]_vars

\* Time passes until the interval timers are due again.
Wait ==
  /\ timers # << >>
  /\ \A t \in DOMAIN timers : clock < timers[t]
  /\ NumStarted < MaxCycles
  /\ clock' = clock + ClockStep
  /\ startCalled' = FALSE
  /\ UNCHANGED << env, refreshFailures, webhooks, formatted, isPolling, timers, notifiedAppointments, opportunitiesCache,
                  lastOpportunitiesFetch, cycles, sinkLog, filterLog, overlapped,
                  stoppedAt >>

\* The poller once started and never stopped, with a source that answers
\* every fetch and a sink whose posts succeed from the second cycle on.
NextLive ==
  \/ StartPolling
  \/ \E t \in DOMAIN timers : Tick(t)
  \/ Wait
  \/ \E c \in Cycles : FetchDone(c, TRUE)
  \/ \E c \in Cycles, ok \in BOOLEAN : RosterDone(c, ok)
  \/ \E c \in Cycles, ok \in BOOLEAN : (ok \/ c = 1) /\ SendDone(c, ok)

\* Time passes, a due timer fires, and every request settles.
Fairness ==
  /\ WF_vars(Wait)
  /\ WF_vars(\E t \in DOMAIN timers : Tick(t))
  /\ \A c \in Cycles :
       /\ WF_vars(FetchDone(c, TRUE))
       /\ WF_vars(\E ok \in BOOLEAN : RosterDone(c, ok))
       /\ WF_vars(\E ok \in BOOLEAN : (ok \/ c = 1) /\ SendDone(c, ok))

SpecLive == Init /\ [][NextLive]_vars /\ Fairness

TypeOK ==
  /\ isPolling \in BOOLEAN
  /\ Len(timers) <= MaxCycles
  /\ notifiedAppointments \subseteq MeetingIds
  /\ \A c \in Cycles : cycles[c].pc \in {"none", "fetch", "roster", "send", "done"}

\* ------------------------------------------------ reading the sink's record
SinkCalls == UNION {{<< c, k >> : k \in DOMAIN sinkLog[c]} : c \in Cycles}

\* The calls of cycle c for meeting id that ended in one of `results`.
Calls(c, id, results) ==
  {k \in DOMAIN sinkLog[c] : sinkLog[c][k].id = id /\ sinkLog[c][k].result \in results}

Posted(c, id) == Calls(c, id, {"posted"}) # {}
Threw(c, id) == Calls(c, id, {"threw"}) # {}
Attempted(c, id) == Calls(c, id, {"posted", "skipped", "threw"}) # {}

PostedCount(id) ==
  Cardinality({p \in SinkCalls :
     sinkLog[p[1]][p[2]].id = id /\ sinkLog[p[1]][p[2]].result = "posted"})

IsDone(c) == cycles[c].pc = "done"

Range(f) == {f[k] : k \in DOMAIN f}

\* Cycle b began after cycle a had returned.
Sequential(a, b) == a < b /\ Started(b) /\ << a, b >> \notin overlapped

\* ------------------------------------------------------------------ claims

\* C1: across sequential (non-overlapping) cycles, once cycle a has posted the
\* notification for a meeting id, no cycle b that began after a returned makes
\* any sink call for that id, although the source returns the meeting again and
\* it passes the creation-date test again.
C1_NoRedeliveryInLaterCycle ==
  \A a \in Cycles, b \in Cycles, id \in MeetingIds :
    (Sequential(a, b) /\ Posted(a, id)) => ~Attempted(b, id)

\* C1 witness: cycle 1 posted meeting 1; cycle 2 began after cycle 1 returned,
\* got meeting 1 from the source again (it passed the date test), filtered it
\* out and returned.
C1_Witness ==
  /\ Sequential(1, 2)
  /\ Posted(1, 1)
  /\ IsDone(2)
  /\ filterLog[2].ran
  /\ 1 \in filterLog[2].createdToday
  /\ \A k \in DOMAIN filterLog[2].newMeetings : filterLog[2].newMeetings[k] # 1

\* C2: every meeting id is posted to the chat channel at most once in the
\* lifetime of the process, also when the id occurs twice in one cycle's
\* aggregated list.
C2_AtMostOnePostPerId ==
  \A id \in MeetingIds : PostedCount(id) <= 1

\* C3: when cycle b begins while cycle a is still suspended on a fetch or a
\* delivery, no meeting id is posted by both.
C3_OverlapPostsNoIdTwice ==
  \A a \in Cycles, b \in Cycles, id \in MeetingIds :
    << a, b >> \in overlapped => ~(Posted(a, id) /\ Posted(b, id))

\* C4: if the delivery for meeting X fails in cycle a (it threw and X was not
\* posted in a), then X is not in the dedup set when a returns, and the next
\* cycle b = a + 1, run after a returned, attempts a delivery for X if the
\* source returned X to it and X passed its creation-date test.
C4_FailedDeliveryIsRetried ==
  \A a \in Cycles, X \in MeetingIds :
    (IsDone(a) /\ Threw(a, X) /\ ~Posted(a, X) /\ \A o \in Cycles : o # a => ~Posted(o, X))
    => /\ X \notin notifiedAppointments
       /\ \A b \in Cycles :
            (b = a + 1 /\ Sequential(a, b) /\ IsDone(b) /\ X \in filterLog[b].createdToday)
            => Attempted(b, X)

\* C5: every id in the dedup set is an id whose notification was posted to the
\* chat channel (never one whose send failed or was skipped for lack of a
\* configured bot).
C5_DedupSetHoldsOnlyPostedIds ==
  \A id \in notifiedAppointments : \E c \in Cycles : Posted(c, id)

\* C6: a delivery failure does not abort the rest of the cycle: a cycle that
\* has returned has made a sink call for every meeting of its filtered list,
\* the ones after a failed delivery included.
C6_FailureDoesNotAbortCycle ==
  \A c \in Cycles :
    (IsDone(c) /\ \E id \in MeetingIds : Threw(c, id))
    => Len(sinkLog[c]) = Len(filterLog[c].newMeetings)

\* C7: after stopPolling() no new poll cycle begins until startPolling() is
\* called again: while the flag says Idle, a step that begins a cycle is a
\* startPolling() call.
C7_NoCycleBeginsWhileIdle ==
  [][(~isPolling /\ NumStarted' > NumStarted) => startCalled']_vars

\* C8: the number of live interval timers is 1 while Polling and 0 while Idle.
C8_TimersMatchState ==
  Len(timers) = IF isPolling THEN 1 ELSE 0

\* C9: startPolling() called while already Polling is a no-op: no timer is
\* added, no cycle begins, and the flag, the dedup set and the roster cache
\* stay as they are.
C9_StartWhilePollingIsNoOp ==
  [][(isPolling /\ startCalled')
       => UNCHANGED << isPolling, timers, cycles, notifiedAppointments,
                       opportunitiesCache, lastOpportunitiesFetch, sinkLog,
                       filterLog >>]_vars

\* C9 witness: startPolling() was just called while cycle 1, begun by the
\* first call, was waiting for a post; there is still one timer and one cycle.
C9_Witness ==
  /\ startCalled
  /\ isPolling
  /\ cycles[1].pc = "send"
  /\ Len(timers) = 1
  /\ NumStarted = 1

\* C10: stopPolling() called while a cycle is in flight does not interrupt it:
\* the cycle still runs all its fetches and its filter, and unless a delivery
\* throws it makes a sink call for every meeting of its filtered list and
\* records each of them in the dedup set.
C10_StopDoesNotInterruptCycle ==
  \A c \in Cycles :
    (stoppedAt[c] >= 0 /\ IsDone(c))
    => /\ env.apiKey => filterLog[c].ran
       /\ (\A id \in MeetingIds : ~Threw(c, id))
          => /\ Len(sinkLog[c]) = Len(filterLog[c].newMeetings)
             /\ \A k \in DOMAIN sinkLog[c] :
                  /\ sinkLog[c][k].id = filterLog[c].newMeetings[k]
                  /\ sinkLog[c][k].id \in notifiedAppointments

\* C10 witness: stopPolling() was called while cycle 1 was in flight and had
\* not yet made a sink call; the cycle went on to post both meetings of its
\* filtered list, recorded them and returned.
C10_Witness ==
  /\ stoppedAt[1] = 0
  /\ IsDone(1)
  /\ filterLog[1].newMeetings = << 1, 2 >>
  /\ Len(sinkLog[1]) = 2
  /\ \A k \in DOMAIN sinkLog[1] : sinkLog[1][k].result = "posted"
  /\ notifiedAppointments = {1, 2}

\* ------------------------------------------------- reading a cycle's fetches
\* The step is the one in which cycle c, its last chunk back, filters.
Filters(c) == cycles[c].pc = "fetch" /\ ~filterLog[c].ran /\ filterLog'[c].ran

\* What the source can have answered to the request cycle c is waiting for.
Answers(c) ==
  {<< >>, SourceWindow(StartDateFrom(cycles[c]), StartDateTo(cycles[c]))}

\* The instant d whole days after ms, as a day count and a time of day.
DaysAfter(ms, d) == Norm(At(d, ms))

C12_FourAbuttingWindows ==
  [][\A c \in Cycles :
       /\ (cycles[c].pc = "none" /\ cycles'[c].pc = "fetch") =>
            /\ cycles'[c].now = clock
            /\ Norm(StartDateFrom(cycles'[c])) = DaysAfter(clock, 0)
       /\ cycles'[c].pc = "fetch" =>
            /\ cycles'[c].offset \in {0, 30, 60, 90}
            /\ Norm(StartDateFrom(cycles'[c]))
                 = DaysAfter(cycles'[c].now, cycles'[c].offset)
            /\ Norm(StartDateTo(cycles'[c]))
                 = DaysAfter(cycles'[c].now, cycles'[c].offset + 30)
            /\ Norm(StartDateTo(cycles'[c])).d
                 - Norm(StartDateFrom(cycles'[c])).d <= 30
       /\ (cycles[c].pc = "fetch" /\ cycles'[c] # cycles[c]) =>
            IF cycles'[c].pc = "fetch"
            THEN /\ cycles'[c].now = cycles[c].now
                 /\ Norm(StartDateFrom(cycles'[c])) = Norm(StartDateTo(cycles[c]))
            ELSE Norm(StartDateTo(cycles[c])) = DaysAfter(cycles[c].now, 120)]_vars

\* C12 witness: a cycle is waiting for its fourth fetch, of the window that
\* ends 120 days after its `now`.
C12_Witness ==
  \E c \in Cycles :
    /\ cycles[c].pc = "fetch"
    /\ cycles[c].offset = 90
    /\ Norm(StartDateTo(cycles[c])) = DaysAfter(cycles[c].now, 120)

\* C13: a chunk fetch that fails (transport error, success flag false) adds
\* nothing for its chunk and ends nothing: what the earlier chunks returned is
\* kept, the next chunk is fetched, and after the last chunk the meetings of
\* the chunks that succeeded are filtered and the first delivery is begun.
C13_FailedChunkIsJustEmpty ==
  [][\A c \in Cycles : FetchDone(c, FALSE) =>
       LET all == cycles[c].allMeetings
           today == {k \in DOMAIN all :
                       all[k].createdDate >= cycles[c].todayMidnightMs}
           new == SelectSeq(all, LAMBDA m :
                    /\ m.createdDate >= cycles[c].todayMidnightMs
                    /\ m.id \notin notifiedAppointments)
       IN  IF cycles[c].offset < 90
           THEN /\ cycles'[c].pc = "fetch"
                /\ cycles'[c].offset = cycles[c].offset + 30
                /\ cycles'[c].allMeetings = all
           ELSE /\ filterLog'[c].ran
                /\ filterLog'[c].createdToday = {all[k].id : k \in today}
                /\ filterLog'[c].newMeetings = Ids(new)
                /\ new # << >> =>
                     \/ cycles'[c].pc \in {"roster", "send"}
                        /\ cycles'[c].newMeetings[cycles'[c].i] = new[1]
                     \/ sinkLog'[c] # << >> /\ sinkLog'[c][1].id = new[1].id]_vars

\* C13 witness: the first chunk of cycle 1 failed (meeting 1, in it, is
\* missing), the second returned meeting 2, and cycle 1 went on to post the
\* notification for meeting 2.
C13_Witness ==
  /\ filterLog[1].ran
  /\ filterLog[1].createdToday = {2}
  /\ Posted(1, 2)

\* C14: when the roster fetch of a cache refresh fails, the mapping held before
\* the refresh is left unchanged and the resolve call that asked for the
\* refresh answers from it.
C14_FailedRefreshKeepsCache ==
  [][\A c \in Cycles : RosterDone(c, FALSE) =>
       /\ opportunitiesCache' = opportunitiesCache
       /\ cycles'[c].pc = "send" =>
            cycles'[c].message
              = CsrName(LeadSetterOf(opportunitiesCache,
                                     Meeting(State(c)).clientId))]_vars

\* ------------------------------------------------ reading a cycle's resolves
\* The step is one in which cycle c calls fetchLeadSetter, at `clock` and with
\* lastOpportunitiesFetch as it stands before the step, and then waits for the
\* roster or for the post.
Resolves(c) ==
  /\ cycles[c].pc \in {"fetch", "send"}
  /\ cycles'[c] # cycles[c]
  /\ cycles'[c].pc \in {"roster", "send"}

\* That call asked the roster source for the roster.
Refetches(c) ==
  \/ cycles'[c].pc = "roster"
  \/ lastOpportunitiesFetch' # lastOpportunitiesFetch

\* C15: a resolve call made 1 ms before the cache is 5 minutes old does not
\* fetch the roster again; one made 1 ms after it is 5 minutes old does.
C15_RefetchOnlyPastTTL ==
  [][\A c \in Cycles : Resolves(c) =>
       LET age == clock - lastOpportunitiesFetch
       IN  /\ age = 5 * 60 * 1000 - 1 => ~Refetches(c)
           /\ age = 5 * 60 * 1000 + 1 => Refetches(c)]_vars

\* C15 witness: the cache was last refreshed at lastOpportunitiesFetch; cycle
\* a resolved 1 ms short of 5 minutes later and went straight on to its post,
\* cycle b resolved 1 ms past 5 minutes later and is waiting for the roster.
C15_Witness ==
  \E a \in Cycles, b \in Cycles :
    /\ lastOpportunitiesFetch > 0
    /\ cycles[a].pc = "send"
    /\ cycles[a].fnow - lastOpportunitiesFetch = CACHE_DURATION_MS - 1
    /\ cycles[b].pc = "roster"
    /\ cycles[b].fnow - lastOpportunitiesFetch = CACHE_DURATION_MS + 1

\* ------------------------------------------------- reading the staff names
\* The meeting the source holds under id.
SourceMeeting(id) ==
  SourceMeetings[CHOOSE k \in DOMAIN SourceMeetings : SourceMeetings[k].id = id]

\* The lead-setter names of the roster's parties with this id.
RosterNames(id) ==
  {<< SourceRoster[k].leadSetterFirstName, SourceRoster[k].leadSetterLastName >> :
     k \in {j \in DOMAIN SourceRoster : SourceRoster[j].id = id}}

\* C16: the staff name of a notification handed to the sink is, when it names
\* anyone, the lead-setter first and last name of the roster party whose id is
\* the meeting's clientId: not those of the party whose id is its
\* opportunityId, and not the meeting's employeeFirstName / employeeLastName.
C16_StaffNameIsLeadSetterOfClient ==
  \A p \in SinkCalls :
    LET e == sinkLog[p[1]][p[2]]
        m == SourceMeeting(e.id)
    IN  \/ e.message = << "Unknown", "CSR" >>
        \/ /\ e.message \in RosterNames(m.clientId)
           /\ e.message \notin RosterNames(m.opportunityId)
           /\ e.message # << m.employeeFirstName, m.employeeLastName >>

\* C16 witness: the notification of meeting 1 (clientId 7, opportunityId 8,
\* calendar of Eve Fox) was posted with staff name Sam Lee, the lead setter of
\* party 7.
C16_Witness ==
  \E p \in SinkCalls :
    /\ sinkLog[p[1]][p[2]].id = 1
    /\ sinkLog[p[1]][p[2]].result = "posted"
    /\ sinkLog[p[1]][p[2]].message = << "Sam", "Lee" >>

\* The step is one in which cycle c puts together the message of its current
\* meeting and hands it to the sink.
Formats(c) ==
  /\ cycles[c].pc \in {"fetch", "roster", "send"}
  /\ cycles'[c] # cycles[c]
  /\ cycles'[c].pc = "send"

\* The cache holds no party with this id, or one whose lead-setter first or
\* last name is null.
Unresolved(cache, id) ==
  \/ id \notin DOMAIN cache
  \/ cache[id].leadSetterFirstName = Null
  \/ cache[id].leadSetterLastName = Null

\* C17: when the roster held has no party whose id is the meeting's clientId,
\* or that party's lead-setter first or last name is null, the message is made
\* with the staff name "Unknown CSR", and the meeting is delivered and recorded
\* in the dedup set like any other: the message goes to the sink, and once the
\* sink has returned the id is in the dedup set.
C17_UnresolvedIsUnknownCsr ==
  /\ [][\A c \in Cycles : Formats(c) =>
          LET m == cycles'[c].newMeetings[cycles'[c].i]
          IN  Unresolved(opportunitiesCache', m.clientId)
                => cycles'[c].message = << "Unknown", "CSR" >>]_vars
  /\ [](\A p \in SinkCalls :
          LET e == sinkLog[p[1]][p[2]]
          IN  (e.message = << "Unknown", "CSR" >> /\ e.result # "threw")
                => e.id \in notifiedAppointments)

\* C17 witness: meeting 2, whose party 8 has a null lead-setter first name, was
\* posted with the staff name "Unknown CSR" and is in the dedup set.
C17_Witness ==
  \E p \in SinkCalls :
    /\ sinkLog[p[1]][p[2]].id = 2
    /\ sinkLog[p[1]][p[2]].result = "posted"
    /\ sinkLog[p[1]][p[2]].message = << "Unknown", "CSR" >>
    /\ 8 \in DOMAIN opportunitiesCache
    /\ 2 \in notifiedAppointments

\* C18: within a cycle the deliveries are made in the order of the filtered
\* list (the order of the aggregated fetch results) and one at a time: the k-th
\* sink call of the cycle is for the k-th meeting of the list, and the meeting
\* the cycle is resolving or sending is the one right after those whose
\* delivery has returned.
C18_DeliveriesInOrderOneAtATime ==
  \A c \in Cycles :
    /\ Len(sinkLog[c]) <= Len(filterLog[c].newMeetings)
    /\ \A k \in DOMAIN sinkLog[c] :
         sinkLog[c][k].id = filterLog[c].newMeetings[k]
    /\ cycles[c].pc \in {"roster", "send"} =>
         /\ cycles[c].i = Len(sinkLog[c]) + 1
         /\ Ids(cycles[c].newMeetings) = filterLog[c].newMeetings

\* C18 witness: a cycle found meetings 1 and 2 (and 2 again), has posted for 1
\* and then for 2, and is now waiting for its third post.
C18_Witness ==
  \E c \in Cycles :
    /\ filterLog[c].newMeetings = << 1, 2, 2 >>
    /\ Len(sinkLog[c]) = 2
    /\ sinkLog[c][1].id = 1 /\ sinkLog[c][1].result = "posted"
    /\ sinkLog[c][2].id = 2 /\ sinkLog[c][2].result = "posted"
    /\ cycles[c].pc = "send"

\* The step is one in which a request of cycle c fails.
Fails(c) ==
  FetchDone(c, FALSE) \/ RosterDone(c, FALSE) \/ SendDone(c, FALSE)

\* C19: no failure inside a cycle escapes it.  After a failed fetch, a failed
\* roster fetch or a failed post the cycle goes on or has returned (it has not
\* raised), the interval timers are as they were, and a timer that is due
\* still begins the next cycle.
C19_FailuresStayInsideTheCycle ==
  /\ [][\A c \in Cycles : Fails(c) =>
          /\ cycles'[c].pc \in {"fetch", "roster", "send", "done"}
          /\ timers' = timers
          /\ isPolling' = isPolling]_vars
  /\ [](\A t \in DOMAIN timers :
          (clock >= timers[t] /\ NumStarted < MaxCycles) => ENABLED Tick(t))

\* C19 witness: a post of cycle 1 failed and cycle 1 returned; later the one
\* timer there is fired and began cycle 2, which has filtered.
C19_Witness ==
  /\ \E id \in MeetingIds : Threw(1, id)
  /\ IsDone(1)
  /\ Len(timers) = 1
  /\ Sequential(1, 2)
  /\ filterLog[2].ran

\* The source returns these meetings to every cycle and each was created on
\* the day the cycles run.
CreatedToday ==
  {id \in MeetingIds :
     /\ SourceMeeting(id).createdDate >= TodayMidnight(StartClock)
     /\ Leq(SourceMeeting(id).startDateTime, At(daysToQuery, StartClock))}

\* C20: eventual delivery.  While the poller is Polling with the source and
\* the sink configured, a meeting that the source returns and that passes the
\* creation-date test in every cycle is eventually posted, provided posts
\* succeed from some cycle on, time passes, due timers fire and requests
\* settle.
C20_EventualDelivery ==
  (isPolling /\ env.apiKey /\ env.botId \notin PlaceholderIds)
    ~> (\A id \in CreatedToday : PostedCount(id) >= 1)

\* C20 witness: the post for meeting 2 failed in cycle 1; cycle 2, begun by the
\* timer while still Polling, posted it.
C20_Witness ==
  /\ isPolling
  /\ Threw(1, 2)
  /\ Len(timers) = 1
  /\ Posted(2, 2)
  /\ CreatedToday = {1, 2}

\* ----------------------------------------------- reading the customer name
EndsWith(s, suffix) ==
  /\ Len(s) >= Len(suffix)
  /\ SubSeq(s, Len(s) - Len(suffix) + 1, Len(s)) = suffix

\* The title without its " - Estimate" suffix, if it has one.
WithoutSuffix(title) ==
  IF EndsWith(title, " - Estimate")
  THEN SubSeq(title, 1, Len(title) - Len(" - Estimate"))
  ELSE title

C22_UnconfiguredSinkSkips ==
  env.botId \in {Null, "your_groupme_bot_id_here"} =>
    /\ \A p \in SinkCalls : sinkLog[p[1]][p[2]].result = "skipped"
    /\ \A c \in Cycles : cycles[c].pc # "send"

\* C22 witness: the bot id is still the placeholder; a cycle called the sink
\* for meetings 1 and 2, both calls were skipped, and the cycle returned.
C22_Witness ==
  /\ env.botId = "your_groupme_bot_id_here"
  /\ \E c \in Cycles :
       /\ IsDone(c)
       /\ Len(sinkLog[c]) >= 2
       /\ \A k \in DOMAIN sinkLog[c] : sinkLog[c][k].result = "skipped"

\* ------------------------------------------------------ reading the webhooks
\* The number of sendGroupMeMessage calls webhook w has made.
SinkCallsOf(w) ==
  IF webhooks[w].pc \in {"skipped", "send", "posted", "threw"} THEN 1 ELSE 0

\* C23: handling a webhook makes exactly one sink call when its event tag is
\* lead.created, appointment.scheduled, project.updated or estimate.sent, and
\* none for any other tag; in every case the poller's dedup set, roster cache
\* and polling flag are left as they were.
C23_WebhookForwardsHandledEvents ==
  /\ [](\A w \in DOMAIN webhooks :
          SinkCallsOf(w) = IF webhooks[w].event \in HandledEvents THEN 1 ELSE 0)
  /\ [][webhooks' # webhooks =>
          /\ notifiedAppointments' = notifiedAppointments
          /\ opportunitiesCache' = opportunitiesCache
          /\ lastOpportunitiesFetch' = lastOpportunitiesFetch
          /\ isPolling' = isPolling]_vars

\* C24: a resolve call made exactly 5 minutes after the last refresh fetches
\* the roster again: the cache is refreshed when now - lastRefresh >= TTL.
C24_RefetchAtExactlyTTL ==
  [][\A c \in Cycles :
       (Resolves(c) /\ clock - lastOpportunitiesFetch = 5 * 60 * 1000)
         => Refetches(c)]_vars

\* C25: a successful refresh replaces the whole mapping: right after it the
\* cache holds exactly the parties of the roster just fetched, each under its
\* id, and a party cached before that the new roster does not list no longer
\* resolves.
C25_RefreshReplacesTheCache ==
  [][\A c \in Cycles, opportunities \in Rosters :
       RosterAnswered(c, opportunities) =>
         /\ DOMAIN opportunitiesCache'
              = {opportunities[k].id : k \in DOMAIN opportunities}
         /\ \A id \in DOMAIN opportunitiesCache' :
              /\ opportunitiesCache'[id] \in Range(opportunities)
              /\ opportunitiesCache'[id].id = id
         /\ \A id \in DOMAIN opportunitiesCache :
              id \notin {opportunities[k].id : k \in DOMAIN opportunities}
                => LeadSetterOf(opportunitiesCache', id) = << >>]_vars

\* C25 witness: party 7 was cached once (a notification names its lead setter
\* Sam Lee); after a refresh with the later roster the cache holds party 8 only,
\* with its new lead setter, and party 7 does not resolve.
C25_Witness ==
  /\ \E p \in SinkCalls : sinkLog[p[1]][p[2]].message = << "Sam", "Lee" >>
  /\ DOMAIN opportunitiesCache = {8}
  /\ opportunitiesCache[8].leadSetterFirstName = "Kim"
  /\ LeadSetterOf(opportunitiesCache, 7) = << >>

\* The source meetings created on the day cycle c began on.
CreatedOnTheDayOf(c) ==
  {id \in MeetingIds : SourceMeeting(id).createdDate >= cycles[c].todayMidnightMs}

\* The source meetings that start within the horizon cycle c queries.
WithinHorizonOf(c) ==
  {id \in MeetingIds :
     /\ Leq(At(0, cycles[c].now), SourceMeeting(id).startDateTime)
     /\ Leq(SourceMeeting(id).startDateTime, At(daysToQuery, cycles[c].now))}

C27_DedupSetOnlyGrows ==
  [][notifiedAppointments \subseteq notifiedAppointments']_vars

\* C27 witness: cycle 1 posted meeting 1 and failed on meeting 2; the poller
\* was stopped and started again (a second timer), and cycle 2, begun by that
\* start, has ended; meeting 1 is still in the dedup set.
C27_Witness ==
  /\ Posted(1, 1)
  /\ Threw(1, 2)
  /\ Len(timers) = 2
  /\ IsDone(2)
  /\ 1 \in notifiedAppointments

\* C28: when the post for the k-th meeting of a cycle's filtered list fails and
\* cuts the cycle short, the ids of meetings 1 .. k-1 are in the dedup set and
\* the ids of meetings k and later are not; and the next cycle, run after this
\* one returned, makes no sink call for an id this one delivered.
C28_FailureAtKKeepsEarlierOnly ==
  /\ [][\A c \in Cycles :
          SendDone(c, FALSE) =>
            LET k == cycles[c].i
                list == Ids(cycles[c].newMeetings)
            IN  /\ \A j \in DOMAIN list : j < k => list[j] \in notifiedAppointments'
                /\ \A j \in DOMAIN list : j >= k => list[j] \notin notifiedAppointments']_vars
  /\ [](\A a \in Cycles, b \in Cycles, id \in MeetingIds :
          (b = a + 1 /\ Sequential(a, b) /\ (\E x \in MeetingIds : Threw(a, x))
             /\ Calls(a, id, {"posted", "skipped"}) # {})
            => ~Attempted(b, id))

\* C29: a refresh whose roster fetch failed sets lastOpportunitiesFetch to the
\* `now` of the fetchLeadSetter call that asked for it, and no fetchLeadSetter
\* call asks for the roster again until more than CACHE_DURATION_MS has passed
\* since that `now`.
C29_FailedRefreshStartsTheTTL ==
  [][\A c \in Cycles :
       /\ RosterDone(c, FALSE) => lastOpportunitiesFetch' = cycles[c].fnow
       /\ (Resolves(c) /\ Refetches(c))
            => \A t \in refreshFailures : clock - t > CACHE_DURATION_MS]_vars

\* C30: a startPolling() call that finds the poller Idle begins a poll cycle in
\* that very call, with no time passing, and arms the interval timer (first due
\* one interval later) in the same call, whether or not the cycle it began has
\* returned.
C30_StartBeginsACycleAtOnce ==
  [][(~isPolling /\ isPolling') =>
       /\ clock' = clock
       /\ cycles[NextCycle].pc = "none"
       /\ cycles'[NextCycle].pc \in {"fetch", "roster", "send", "done"}
       /\ cycles'[NextCycle].pc = "fetch" => cycles'[NextCycle].now = clock
       /\ timers' = Append(timers, clock + POLL_INTERVAL_MS)
       /\ clock < timers'[Len(timers')]]_vars

\* C30 witness: startPolling() has just been called on an Idle poller; the
\* cycle it began is waiting for the source's answer and the timer is armed
\* already, due one interval from now.
C30_Witness ==
  /\ startCalled
  /\ isPolling
  /\ NumStarted = 1
  /\ cycles[1].pc = "fetch"
  /\ timers = << clock + POLL_INTERVAL_MS >>

====
